---- MODULE Spec2Model ----
(***************************************************************************)
(* Model of the albatroz command-line tool (src/src/cli.js).               *)
(*                                                                         *)
(* One run of the tool is one command (`init`, `add [component]` or an     *)
(* unrecognised command).  The state that survives a run is the host       *)
(* project's disk: package.json, albatroz.json and the component files.    *)
(* Every await of the code (prompt, install, GET, ensureDir, writeFile)    *)
(* and every synchronous disk access that can throw is one step, its       *)
(* outcome chosen by the environment.                                      *)
(*                                                                         *)
(* Strings the code inspects character by character (component names) are *)
(* sequences of one-character strings, so that toLowerCase and            *)
(* formatComponentName are computed and not assumed.                       *)
(***************************************************************************)
EXTENDS Integers, Sequences, FiniteSets, TLC

VARIABLES
    \* ---- the disk, which survives a run
    manifest,       \* package.json
    configFile,     \* albatroz.json
    files,          \* component files: path -> contents
    dirs,           \* directories created under the project
    \* ---- the running process
    pc,             \* position in the code
    cmd,            \* the command of this run
    component,      \* argument of `add`; <<>> when absent
    caller,         \* who awaits initializeProject: "init" or "ensureConfig"
    config,         \* the in-memory configuration record
    packageManager, \* answer of the prompt
    content,        \* componentContent
    resp,           \* what the GET came back with
    exitCode,       \* exit code of the process
    uncaught,       \* the run ended with a rejection nobody handled
    \* ---- what the run did, in order
    out,            \* lines printed
    gets,           \* URLs requested
    writes,         \* component files written
    mkdirs,         \* directories ensured
    prompts,        \* prompts shown
    installs,       \* install commands executed
    cfgWrites,      \* records written to albatroz.json
    \* ---- history
    runs,           \* number of runs started
    cfgAtStart,     \* albatroz.json when this run started
    manAtStart,     \* package.json when this run started
    filesAtStart,   \* the component files when this run started
    initResult,     \* what initializeProject returned in this run, if it did
    initOk,         \* an `init` run has completed successfully
    noConfigAtFirst \* the project had no albatroz.json at the very beginning

disk == <<manifest, configFile, files, dirs>>
proc == <<pc, cmd, component, caller, config, packageManager, content, resp,
          exitCode, uncaught>>
log  == <<out, gets, writes, mkdirs, prompts, installs, cfgWrites>>
hist == <<runs, cfgAtStart, manAtStart, filesAtStart, initResult, initOk,
          noConfigAtFirst>>
vars == <<disk, proc, log, hist>>

----------------------------------------------------------------------------
(* Bounds *)

MaxRuns == 2      \* runs of the tool in one behaviour
CaseSpan == 1     \* leading characters of a name that may be upper case

----------------------------------------------------------------------------
(* Strings *)

LowerLetters == <<"a","b","c","d","e","l","n","o","r","s","t","u","v">>
UpperLetters == <<"A","B","C","D","E","L","N","O","R","S","T","U","V">>

\* String.prototype.toLowerCase on one character
toLowerChar(c) ==
    IF \E i \in 1..Len(UpperLetters) : UpperLetters[i] = c
    THEN LowerLetters[CHOOSE i \in 1..Len(UpperLetters) : UpperLetters[i] = c]
    ELSE c

toUpperChar(c) ==
    IF \E i \in 1..Len(LowerLetters) : LowerLetters[i] = c
    THEN UpperLetters[CHOOSE i \in 1..Len(LowerLetters) : LowerLetters[i] = c]
    ELSE c

\* String.prototype.toLowerCase
toLowerCase(s) == [i \in 1..Len(s) |-> toLowerChar(s[i])]

alert  == <<"a","l","e","r","t">>
avatar == <<"a","v","a","t","a","r">>
card   == <<"c","a","r","d">>
toast  == <<"t","o","a","s","t">>
button == <<"b","u","t","t","o","n">>
cards  == <<"c","a","r","d","s">>

\* const AVAILABLE_COMPONENTS = ['alert', 'avatar', 'card', 'toast'];
AVAILABLE_COMPONENTS == <<alert, avatar, card, toast>>

\* Array.prototype.includes on AVAILABLE_COMPONENTS
includes(arr, x) == \E i \in 1..Len(arr) : arr[i] = x

\* The names a user may type: every word in every letter case of its first
\* CaseSpan characters.
Words == {alert, avatar, card, toast, button, cards}
CaseVariants(w) ==
    {[i \in 1..Len(w) |-> IF i \in U THEN toUpperChar(w[i]) ELSE w[i]] :
        U \in SUBSET {i \in 1..Len(w) : i <= CaseSpan}}
Identifiers == UNION {CaseVariants(w) : w \in Words}

\* formatComponentName
formatComponentName(name) ==
    IF name = <<>> THEN <<>>
    ELSE <<toLowerChar(Head(name))>> \o toLowerCase(Tail(name))

----------------------------------------------------------------------------
(* The disk *)

Pkgs == {"expo", "lucide-react-native"}

\* package.json: missing, not JSON, or an object with the two dependency maps
\* (the sets of the package names they declare).
Manifests ==
    {[kind |-> "missing", dependencies |-> {}, devDependencies |-> {}],
     [kind |-> "unparsable", dependencies |-> {}, devDependencies |-> {}]}
    \cup [kind : {"json"}, dependencies : SUBSET Pkgs, devDependencies : SUBSET Pkgs]

\* const dependencies = { ...packageJson.dependencies, ...packageJson.devDependencies };
mergedDependencies(m) == m.dependencies \cup m.devDependencies

\* checkExpoProject testing the merged object instead of its expo key
checkExpoProject_anyDependencies(m) ==
    IF m.kind # "json" THEN "no_package_json" ELSE "ok"

\* checkExpoProject: "ok" when it returns true, otherwise the branch that
\* calls process.exit(1).
checkExpoProject(m) ==
    IF m.kind # "json" THEN "no_package_json"
    ELSE IF "expo" \notin mergedDependencies(m) THEN "not_expo"
    ELSE "ok"

\* checkDependency
checkDependency(m, dependency) ==
    IF m.kind # "json" THEN FALSE
    ELSE dependency \in mergedDependencies(m)

DefaultBaseUrl == "https://raw.githubusercontent.com/eugustavo/albatroz/refs/heads/main/src/components"
OtherBaseUrl == "https://example.org/components"

\* const DEFAULT_CONFIG
DEFAULT_CONFIG ==
    [baseUrl |-> DefaultBaseUrl, dependencies |-> [p \in Pkgs |-> FALSE]]

\* The records albatroz.json may hold when the tool first runs: either base
\* URL, with the flags (which no code path reads back) all set or all clear.
Configs ==
    [baseUrl : {DefaultBaseUrl, OtherBaseUrl},
     dependencies : {[p \in Pkgs |-> b] : b \in BOOLEAN}]

\* albatroz.json: absent, not JSON, or a configuration record
NoConfigFile == [kind |-> "absent", data |-> DEFAULT_CONFIG]
BadConfigFile == [kind |-> "malformed", data |-> DEFAULT_CONFIG]
JsonFile(c) == [kind |-> "json", data |-> c]

\* fs.existsSync(CONFIG_FILE)
existsSync(f) == f.kind # "absent"

\* The configuration initializeProject builds before it prompts (lines 127-129)
buildConfig(m) ==
    [baseUrl |-> DEFAULT_CONFIG.baseUrl,
     dependencies |-> [p \in Pkgs |-> checkDependency(m, p)]]

\* initializeProject without the assignment of line 156
markInstalled_forgotten(c) == c

\* config.dependencies['lucide-react-native'] = true (line 156)
markInstalled(c) ==
    [c EXCEPT !.dependencies = [@ EXCEPT !["lucide-react-native"] = TRUE]]

PackageManagers == {"npm", "yarn", "pnpm"}

\* const installCommand = { npm: 'npm install', yarn: 'yarn add', pnpm: 'pnpm add' }[packageManager]
installCommand(pm) ==
    CASE pm = "npm" -> "npm install"
      [] pm = "yarn" -> "yarn add"
      [] pm = "pnpm" -> "pnpm add"
      [] OTHER -> "undefined"

\* What a successful install leaves in package.json: the package manager
\* records the package, unless it is configured not to save.
afterInstall(m, saves) ==
    IF saves /\ m.kind = "json"
    THEN [m EXCEPT !.dependencies = @ \cup {"lucide-react-native"}]
    ELSE m

----------------------------------------------------------------------------
(* The remote store *)

Bodies == {"export const Alert = ...;", "export const Card = ...;"}

NoResponse == [hasResponse |-> FALSE, status |-> 0, body |-> "", message |-> ""]

\* What axios.get settles with: 200 and a body, an HTTP error status, or no
\* response at all.
Responses ==
    {[hasResponse |-> TRUE, status |-> 200, body |-> b, message |-> ""] : b \in Bodies}
    \cup {[hasResponse |-> TRUE, status |-> 404, body |-> "",
           message |-> "Request failed with status code 404"],
          [hasResponse |-> TRUE, status |-> 500, body |-> "",
           message |-> "Request failed with status code 500"],
          [hasResponse |-> FALSE, status |-> 0, body |-> "",
           message |-> "Network Error"]}

\* downloadComponent without the toLowerCase of line 31
downloadUrl_asTyped(componentName, baseUrl) ==
    [base |-> baseUrl, name |-> componentName, ext |-> ".tsx"]

\* `${baseUrl}/${componentName.toLowerCase()}.tsx`
downloadUrl(componentName, baseUrl) ==
    [base |-> baseUrl, name |-> toLowerCase(componentName), ext |-> ".tsx"]

\* downloadComponent rethrowing every error as it came
downloadError_rethrown(r) == r.message

\* The message of the error downloadComponent throws (lines 33-38)
downloadError(r) ==
    IF r.hasResponse /\ r.status = 404
    THEN "Component not found in repository"
    ELSE r.message

\* path.join(process.cwd(), 'src', 'components', 'ui')
componentPath == "src/components/ui"

\* path.join(componentPath, `${formattedName}.tsx`)
componentFile(componentName) ==
    [dir |-> componentPath, name |-> formatComponentName(componentName), ext |-> ".tsx"]

\* addComponent accepting every name that starts with a catalog entry
isAvailable_startsWith(componentName) ==
    \E i \in 1..Len(AVAILABLE_COMPONENTS) :
        /\ Len(componentName) >= Len(AVAILABLE_COMPONENTS[i])
        /\ SubSeq(toLowerCase(componentName), 1, Len(AVAILABLE_COMPONENTS[i]))
              = AVAILABLE_COMPONENTS[i]

\* !AVAILABLE_COMPONENTS.includes(normalizedName) is the rejection (line 94)
isAvailable(componentName) ==
    includes(AVAILABLE_COMPONENTS, toLowerCase(componentName))

\* fs.writeFile: create or overwrite
writeFile(fs, path, data) ==
    [p \in DOMAIN fs \cup {path} |-> IF p = path THEN data ELSE fs[p]]

----------------------------------------------------------------------------
(* Terminal output *)

Msg(text, detail) == [text |-> text, detail |-> detail]
Line(text) == Msg(text, "")

\* what checkExpoProject prints before process.exit(1)
validatorOutput(v) ==
    IF v = "not_expo"
    THEN <<Line("Error: This is not an Expo project"),
           Line("At this moment, we only support Expo projects."),
           Line("Please create a new project using:"),
           Line("npx create-expo-app@latest")>>
    ELSE <<Line("Error: Could not find package.json"),
           Line("Please make sure you are in the root of your project.")>>

\* the catalog listing (lines 96-99 and 197-200)
listing ==
    <<Line("Available components:")>>
    \o [i \in 1..Len(AVAILABLE_COMPONENTS) |-> Line("  - component")]

Printed(text) == \E i \in 1..Len(out) : out[i].text = text
PrintedMsg(text, detail) == \E i \in 1..Len(out) : out[i] = Msg(text, detail)

----------------------------------------------------------------------------
(* Initial states *)

Init ==
    /\ manifest \in Manifests
    /\ configFile \in {NoConfigFile, BadConfigFile} \cup {JsonFile(c) : c \in Configs}
    /\ files = <<>>
    /\ dirs = {}
    /\ pc = "idle"
    /\ cmd = "none"
    /\ component = <<>>
    /\ caller = "none"
    /\ config = DEFAULT_CONFIG
    /\ packageManager = "undefined"
    /\ content = ""
    /\ resp = NoResponse
    /\ exitCode = 0
    /\ uncaught = FALSE
    /\ out = <<>>
    /\ gets = <<>>
    /\ writes = <<>>
    /\ mkdirs = 0
    /\ prompts = 0
    /\ installs = <<>>
    /\ cfgWrites = <<>>
    /\ runs = 0
    /\ cfgAtStart = configFile
    /\ manAtStart = manifest
    /\ filesAtStart = files
    /\ initResult = "none"
    /\ initOk = FALSE
    /\ noConfigAtFirst = ~existsSync(configFile)

----------------------------------------------------------------------------
(* A run starts: a fresh process *)

StartRun(c, arg) ==
    /\ pc \in {"idle", "exited"}
    /\ runs < MaxRuns
    /\ runs' = runs + 1
    /\ cmd' = c
    /\ component' = arg
    /\ config' = DEFAULT_CONFIG
    /\ packageManager' = "undefined"
    /\ content' = ""
    /\ resp' = NoResponse
    /\ uncaught' = FALSE
    /\ gets' = <<>>
    /\ writes' = <<>>
    /\ mkdirs' = 0
    /\ prompts' = 0
    /\ installs' = <<>>
    /\ cfgWrites' = <<>>
    /\ cfgAtStart' = configFile
    /\ manAtStart' = manifest
    /\ filesAtStart' = files
    /\ initResult' = "none"
    /\ UNCHANGED <<disk, initOk, noConfigAtFirst>>

\* process.exit(code), or the action returning and the process ending
Exit(code, printed) ==
    /\ pc' = "exited"
    /\ exitCode' = code
    /\ out' = printed

\* the catch of the add action (lines 208-210): print and return
CaughtByAdd(printed, message) ==
    Exit(0, printed \o <<Msg("Error:", message)>>)

\* the catch of addComponent (lines 116-119): print and return
CaughtByAddComponent(message) ==
    Exit(0, out \o <<Line("Failed to add component"), Msg("Error details:", message)>>)

\* ensureConfig reporting the configuration as present once it has initialised
ensureConfigAfterInit_true == TRUE

\* What ensureConfig returns after it has awaited initializeProject (line 75)
ensureConfigAfterInit == FALSE

\* initializeProject returns `result` to whoever awaits it: the init action,
\* which ends, or ensureConfig inside the add action (lines 190-193).
Return(result, printed) ==
    /\ initResult' = IF result THEN "true" ELSE "false"
    /\ initOk' = (initOk \/ (result /\ caller = "init"))
    /\ IF caller = "init"
       THEN Exit(0, printed)
       ELSE IF ~ensureConfigAfterInit
            THEN Exit(0, printed \o <<Line("Please run init command first.")>>)
            ELSE /\ pc' = "readConfig"
                 /\ exitCode' = exitCode
                 /\ out' = printed

----------------------------------------------------------------------------
(* Commands *)

\* program.command('init').action
init_action ==
    /\ StartRun("init", <<>>)
    /\ caller' = "init"
    /\ pc' = "initializeProject"
    /\ exitCode' = 0
    /\ out' = <<>>

\* program.command('add [component]').action, up to the end of ensureConfig's
\* existence test
add_action(arg) ==
    /\ StartRun("add", arg)
    /\ LET v == checkExpoProject(manifest) IN
       IF v # "ok"
       THEN /\ Exit(1, validatorOutput(v))
            /\ caller' = "none"
       ELSE /\ exitCode' = 0
            /\ out' = <<>>
            /\ IF ~existsSync(configFile)
               THEN /\ caller' = "ensureConfig"
                    /\ pc' = "initializeProject"
               ELSE /\ caller' = "none"
                    /\ pc' = "readConfig"

\* program.on('command:*')
unknown_command ==
    /\ StartRun("unknown", <<>>)
    /\ caller' = "none"
    /\ Exit(1, <<Line("Error: Invalid command"), Line("Available commands:"),
                 Line("  - init"), Line("  - add [component]")>>)

----------------------------------------------------------------------------
(* initializeProject *)

\* lines 123-143: validate, build the configuration, decide whether to prompt
initializeProject ==
    /\ pc = "initializeProject"
    /\ LET printed == out \o <<Line("Initializing Albatroz UI...")>>
           v == checkExpoProject(manifest)
       IN IF v # "ok"
          THEN /\ Exit(1, printed \o validatorOutput(v))
               /\ config' = config
          ELSE /\ config' = buildConfig(manifest)
               /\ out' = printed
               /\ exitCode' = exitCode
               /\ pc' = IF ~config'.dependencies["lucide-react-native"]
                        THEN "prompt" ELSE "saveConfig"
    /\ UNCHANGED <<disk, cmd, component, caller, packageManager, content, resp, uncaught>>
    /\ UNCHANGED <<gets, writes, mkdirs, prompts, installs, cfgWrites, hist>>

\* inquirer.prompt resolves (lines 133-141)
prompt_answer(pm) ==
    /\ pc = "prompt"
    /\ prompts' = prompts + 1
    /\ packageManager' = pm
    /\ pc' = "install"
    /\ UNCHANGED <<disk, cmd, component, caller, config, content, resp, exitCode, uncaught>>
    /\ UNCHANGED <<out, gets, writes, mkdirs, installs, cfgWrites, hist>>

\* inquirer.prompt rejects.  The await is outside initializeProject's try, so
\* the rejection leaves initializeProject.  Under `add` the action's catch
\* prints it.  Under `init` nothing handles it: the runtime ends the process
\* with code 1, or (older runtimes) only warns and the process ends with 0.
prompt_reject(code) ==
    /\ pc = "prompt"
    /\ prompts' = prompts + 1
    /\ IF caller = "init"
       THEN /\ uncaught' = TRUE
            /\ Exit(code, out)
       ELSE /\ code = 0
            /\ uncaught' = FALSE
            /\ CaughtByAdd(out, "Prompt couldn't be rendered in the current environment")
    /\ UNCHANGED <<disk, cmd, component, caller, config, packageManager, content, resp>>
    /\ UNCHANGED <<gets, writes, mkdirs, installs, cfgWrites, hist>>

\* the record of one execSync(`${installCommand} lucide-react-native`)
InstallRecord(pm) == [command |-> installCommand(pm), package |-> "lucide-react-native"]

\* execSync returns (lines 155-156)
install_ok(saves) ==
    /\ pc = "install"
    /\ installs' = Append(installs, InstallRecord(packageManager))
    /\ manifest' = afterInstall(manifest, saves)
    /\ config' = markInstalled(config)
    /\ pc' = "saveConfig"
    /\ UNCHANGED <<configFile, files, dirs, cmd, component, caller, packageManager,
                   content, resp, exitCode, uncaught>>
    /\ UNCHANGED <<out, gets, writes, mkdirs, prompts, cfgWrites, hist>>

\* what the catch of initializeProject does (lines 164-168)
initializeFailed(message) ==
    Return(FALSE, out \o <<Line("Failed to initialize project"),
                           Msg("Error details:", message)>>)

\* initializeProject with saveConfig in a finally block: the configuration is
\* written although execSync threw
install_fail_thenSave ==
    /\ pc = "install"
    /\ installs' = Append(installs, InstallRecord(packageManager))
    /\ configFile' = JsonFile(config)
    /\ cfgWrites' = Append(cfgWrites, config)
    /\ initializeFailed("Command failed")
    /\ UNCHANGED <<manifest, files, dirs, cmd, component, caller, config,
                   packageManager, content, resp, uncaught>>
    /\ UNCHANGED <<gets, writes, mkdirs, prompts>>
    /\ UNCHANGED <<runs, cfgAtStart, manAtStart, filesAtStart, noConfigAtFirst>>

\* execSync throws
install_fail ==
    /\ pc = "install"
    /\ installs' = Append(installs, InstallRecord(packageManager))
    /\ initializeFailed("Command failed")
    /\ UNCHANGED <<disk, cmd, component, caller, config, packageManager, content,
                   resp, uncaught>>
    /\ UNCHANGED <<gets, writes, mkdirs, prompts, cfgWrites>>
    /\ UNCHANGED <<runs, cfgAtStart, manAtStart, filesAtStart, noConfigAtFirst>>

\* saveConfig(config) succeeds (lines 160-163)
saveConfig_ok ==
    /\ pc = "saveConfig"
    /\ configFile' = JsonFile(config)
    /\ cfgWrites' = Append(cfgWrites, config)
    /\ Return(TRUE, out \o <<Line("Project initialized successfully!")>>)
    /\ UNCHANGED <<manifest, files, dirs, cmd, component, caller, config,
                   packageManager, content, resp, uncaught>>
    /\ UNCHANGED <<gets, writes, mkdirs, prompts, installs>>
    /\ UNCHANGED <<runs, cfgAtStart, manAtStart, filesAtStart, noConfigAtFirst>>

\* fs.writeFileSync throws before anything is written (the file cannot be opened)
saveConfig_fail ==
    /\ pc = "saveConfig"
    /\ initializeFailed("EACCES: permission denied, open 'albatroz.json'")
    /\ UNCHANGED <<disk, cmd, component, caller, config, packageManager, content,
                   resp, uncaught>>
    /\ UNCHANGED <<gets, writes, mkdirs, prompts, installs, cfgWrites>>
    /\ UNCHANGED <<runs, cfgAtStart, manAtStart, filesAtStart, noConfigAtFirst>>

----------------------------------------------------------------------------
(* The add action after ensureConfig, and addComponent *)

\* const config = readConfig(); then the listing when no name was given
\* (lines 195-205).  JSON.parse throws on a malformed file.
readConfig ==
    /\ pc = "readConfig"
    /\ IF configFile.kind # "json"
       THEN /\ CaughtByAdd(out, "Unexpected token in JSON")
            /\ config' = config
       ELSE /\ config' = configFile.data
            /\ IF component = <<>>
               THEN Exit(0, out \o listing \o <<Line("Usage:"),
                                Line("  npx @albatroz/ui add <component>")>>)
               ELSE /\ pc' = "addComponent"
                    /\ exitCode' = exitCode
                    /\ out' = out
    /\ UNCHANGED <<disk, cmd, component, caller, packageManager, content, resp, uncaught>>
    /\ UNCHANGED <<gets, writes, mkdirs, prompts, installs, cfgWrites, hist>>

\* addComponent up to the GET being sent (lines 88-103)
addComponent ==
    /\ pc = "addComponent"
    /\ IF ~isAvailable(component)
       THEN /\ Exit(0, out \o <<Line("Component not available")>> \o listing)
            /\ gets' = gets
       ELSE /\ gets' = Append(gets, downloadUrl(component, config.baseUrl))
            /\ pc' = "download"
            /\ exitCode' = exitCode
            /\ out' = out
    /\ UNCHANGED <<disk, cmd, component, caller, config, packageManager, content,
                   resp, uncaught>>
    /\ UNCHANGED <<writes, mkdirs, prompts, installs, cfgWrites, hist>>

\* downloadComponent settles (lines 29-39)
download(r) ==
    /\ pc = "download"
    /\ resp' = r
    /\ IF r.hasResponse /\ r.status = 200
       THEN /\ content' = r.body
            /\ pc' = "ensureDir"
            /\ exitCode' = exitCode
            /\ out' = out
       ELSE /\ content' = content
            /\ CaughtByAddComponent(downloadError(r))
    /\ UNCHANGED <<disk, cmd, component, caller, config, packageManager, uncaught>>
    /\ UNCHANGED <<gets, writes, mkdirs, prompts, installs, cfgWrites, hist>>

\* await fs.ensureDir(componentPath) (lines 105-106)
ensureDir_ok ==
    /\ pc = "ensureDir"
    /\ dirs' = dirs \cup {componentPath}
    /\ mkdirs' = mkdirs + 1
    /\ pc' = "writeFile"
    /\ UNCHANGED <<manifest, configFile, files, cmd, component, caller, config,
                   packageManager, content, resp, exitCode, uncaught>>
    /\ UNCHANGED <<out, gets, writes, prompts, installs, cfgWrites, hist>>

\* fs.ensureDir rejects
ensureDir_fail ==
    /\ pc = "ensureDir"
    /\ CaughtByAddComponent("EACCES: permission denied, mkdir")
    /\ UNCHANGED <<disk, cmd, component, caller, config, packageManager, content,
                   resp, uncaught>>
    /\ UNCHANGED <<gets, writes, mkdirs, prompts, installs, cfgWrites, hist>>

\* await fs.writeFile(...) and the success report (lines 108-115)
writeFile_ok ==
    /\ pc = "writeFile"
    /\ files' = writeFile(files, componentFile(component), content)
    /\ writes' = Append(writes, [path |-> componentFile(component), data |-> content])
    /\ Exit(0, out \o <<Line("Component added successfully!"), Line("Location:")>>)
    /\ UNCHANGED <<manifest, configFile, dirs, cmd, component, caller, config,
                   packageManager, content, resp, uncaught>>
    /\ UNCHANGED <<gets, mkdirs, prompts, installs, cfgWrites, hist>>

\* fs.writeFile rejects before anything is written
writeFile_fail ==
    /\ pc = "writeFile"
    /\ CaughtByAddComponent("EACCES: permission denied, open")
    /\ UNCHANGED <<disk, cmd, component, caller, config, packageManager, content,
                   resp, uncaught>>
    /\ UNCHANGED <<gets, writes, mkdirs, prompts, installs, cfgWrites, hist>>

----------------------------------------------------------------------------
(* Specification *)

Next ==
    \/ init_action
    \/ \E arg \in Identifiers \cup {<<>>} : add_action(arg)
    \/ unknown_command
    \/ initializeProject
    \/ \E pm \in PackageManagers : prompt_answer(pm)
    \/ \E code \in {0, 1} : prompt_reject(code)
    \/ \E saves \in BOOLEAN : install_ok(saves)
    \/ install_fail
    \/ saveConfig_ok
    \/ saveConfig_fail
    \/ readConfig
    \/ addComponent
    \/ \E r \in Responses : download(r)
    \/ ensureDir_ok
    \/ ensureDir_fail
    \/ writeFile_ok
    \/ writeFile_fail

Spec == Init /\ [][Next]_vars

----------------------------------------------------------------------------
(* Vocabulary of the properties, stated without the operators of the model *)

Catalog == {alert, avatar, card, toast}
InCatalog(name) == toLowerCase(name) \in Catalog

\* the manifest parses and declares expo in dependencies or devDependencies
DeclaresExpo(m) == m.kind = "json" /\ "expo" \in (m.dependencies \cup m.devDependencies)

\* the run started in an initialised project
Initialised == cfgAtStart.kind = "json" /\ DeclaresExpo(manAtStart)

Exited == pc = "exited"
Got200 == resp.hasResponse /\ resp.status = 200
FetchFailed == resp # NoResponse /\ ~Got200

FailureReported(message) ==
    /\ Printed("Failed to add component")
    /\ PrintedMsg("Error details:", message)

UiFile(name) == [dir |-> "src/components/ui", name |-> name, ext |-> ".tsx"]

\* every file other than `path` is as it was when the run started
OthersUntouched(path) ==
    /\ DOMAIN files \ {path} = DOMAIN filesAtStart \ {path}
    /\ \A p \in DOMAIN files \ {path} : files[p] = filesAtStart[p]

NothingWritten ==
    /\ writes = <<>>
    /\ mkdirs = 0
    /\ files = filesAtStart

\* the configuration record a completed initialisation writes
InitialisedConfig ==
    [baseUrl |-> DefaultBaseUrl, dependencies |-> [p \in Pkgs |-> TRUE]]

----------------------------------------------------------------------------
(* Properties *)

\* C1: `add <id>` with an id outside the catalog (whatever its letter case), in
\* an initialised project, never issues a GET, never creates the directory
\* and never writes a file, and ends having printed "Component not
\* available".
C1_NotAvailable ==
    (cmd = "add" /\ component # <<>> /\ ~InCatalog(component) /\ Initialised)
        => /\ gets = <<>>
           /\ NothingWritten
           /\ Exited => (Printed("Component not available") /\ exitCode = 0)

C1_Witness ==
    /\ Exited /\ cmd = "add" /\ Initialised
    /\ component = <<"B","u","t","t","o","n">>
    /\ Printed("Component not available")
    /\ filesAtStart # <<>>

\* C2: `add <id>` with a catalog id in any letter case, in an initialised
\* project, issues exactly one GET, to <baseUrl of albatroz.json>/<id in
\* lower case>.tsx; on a 200 response it writes exactly one file,
\* src/components/ui/<formatComponentName(id)>.tsx, with the response body
\* as its contents, replacing whatever was there and touching nothing else.
\* The write is missing only when creating the directory or writing the file
\* itself failed, which the run reports.
C2_FetchAndWrite ==
    (cmd = "add" /\ InCatalog(component) /\ Initialised)
        => /\ Len(gets) <= 1 /\ Len(writes) <= 1
           /\ \A i \in 1..Len(gets) :
                gets[i] = [base |-> cfgAtStart.data.baseUrl,
                           name |-> toLowerCase(component), ext |-> ".tsx"]
           /\ ~Got200 => writes = <<>> /\ files = filesAtStart
           /\ Exited =>
                /\ Len(gets) = 1
                /\ Got200 =>
                     LET path == UiFile(formatComponentName(component)) IN
                     \/ /\ writes = <<[path |-> path, data |-> resp.body]>>
                        /\ path \in DOMAIN files
                        /\ files[path] = resp.body
                        /\ OthersUntouched(path)
                        /\ Printed("Component added successfully!")
                     \/ /\ writes = <<>>
                        /\ files = filesAtStart
                        /\ \/ FailureReported("EACCES: permission denied, mkdir")
                           \/ FailureReported("EACCES: permission denied, open")

C2_Witness ==
    /\ Exited /\ cmd = "add" /\ Initialised
    /\ component = <<"A","l","e","r","t">>
    /\ cfgAtStart.data.baseUrl = OtherBaseUrl
    /\ Got200
    /\ Len(writes) = 1
    /\ UiFile(alert) \in DOMAIN filesAtStart
    /\ filesAtStart[UiFile(alert)] # resp.body

\* C3: with a manifest declaring expo and lucide-react-native, `add alert`
\* shows no prompt, requests <baseUrl>/alert.tsx and, the response being 200
\* and the write succeeding, leaves src/components/ui/Alert.tsx holding the
\* response body, prints the success message and exits 0.
C3_AlertScenario ==
    ( /\ Exited /\ cmd = "add" /\ component = alert
      /\ manAtStart.kind = "json" /\ Pkgs \subseteq manAtStart.dependencies
      /\ cfgAtStart.kind = "json"
      /\ Got200 /\ Len(writes) = 1 )
        => /\ prompts = 0
           /\ gets = <<[base |-> cfgAtStart.data.baseUrl, name |-> alert, ext |-> ".tsx"]>>
           /\ UiFile(<<"A","l","e","r","t">>) \in DOMAIN files
           /\ files[UiFile(<<"A","l","e","r","t">>)] = resp.body
           /\ Printed("Component added successfully!")
           /\ exitCode = 0

\* C4: once an `init` run has completed successfully, a later `init` run
\* executes no install command.  (initOk is set in the step that ends the
\* successful run, so while a run is under way it speaks of earlier runs.)
C4_SecondInitInstallsNothing ==
    (cmd = "init" /\ initOk /\ ~Exited) => installs = <<>>

\* C5: `init` with package.json missing, unparsable or not declaring expo in
\* dependencies or devDependencies ends with exit code 1 without having
\* prompted, installed or touched albatroz.json.
C5_InitRejectsNonExpo ==
    (cmd = "init" /\ ~DeclaresExpo(manAtStart))
        => /\ pc \in {"initializeProject", "exited"}
           /\ prompts = 0
           /\ installs = <<>>
           /\ cfgWrites = <<>>
           /\ configFile = cfgAtStart
           /\ Exited => (exitCode = 1 /\ ~uncaught)

C5_Witness ==
    /\ Exited /\ cmd = "init" /\ exitCode = 1
    /\ manAtStart.kind = "json"
    /\ manAtStart.dependencies = {"lucide-react-native"}
    /\ cfgAtStart.kind = "json"

\* C6: when the GET of `add` fails with status 404 the run reports "Component
\* not found in repository" and not the error's own message; any other fetch
\* failure is reported with its own message; either way no file is written
\* and the run ends normally with exit code 0.
C6_NotFoundMessage ==
    (Exited /\ cmd = "add" /\ FetchFailed)
        => /\ IF resp.hasResponse /\ resp.status = 404
              THEN /\ FailureReported("Component not found in repository")
                   /\ ~PrintedMsg("Error details:", resp.message)
              ELSE FailureReported(resp.message)
           /\ NothingWritten
           /\ exitCode = 0
           /\ ~uncaught

C6_Witness ==
    /\ Exited /\ cmd = "add" /\ resp.hasResponse /\ resp.status = 404
    /\ FailureReported("Component not found in repository")

\* C7: an `init` or `add` run whose validator passed is never terminated with
\* a non-zero exit code: whatever else failed was caught by the command's
\* handler and the exit code stays 0.
C7_OnlyValidatorTerminates ==
    (Exited /\ cmd \in {"init", "add"} /\ DeclaresExpo(manAtStart))
        => exitCode = 0

\* C8: when the install command throws during initializeProject, albatroz.json
\* is not written (it stays absent, or keeps its contents), the failure is
\* reported, initializeProject returns false and the process is not
\* terminated from there: it ends with exit code 0.
InstallThrew == PrintedMsg("Error details:", "Command failed")

C8_InstallFailureSkipsWrite ==
    InstallThrew
        => /\ cfgWrites = <<>>
           /\ configFile = cfgAtStart
           /\ Printed("Failed to initialize project")
           /\ ~Printed("Project initialized successfully!")
           /\ initResult = "false"
           /\ Exited /\ exitCode = 0 /\ ~uncaught

C8_Witness ==
    /\ InstallThrew /\ cmd = "init"
    /\ cfgAtStart = JsonFile([baseUrl |-> OtherBaseUrl,
                              dependencies |-> [p \in Pkgs |-> FALSE]])
    /\ configFile = cfgAtStart

\* C9: an `add` run that starts without albatroz.json in an Expo project runs
\* initializeProject and never reaches the fetch: no GET, no directory, no
\* component file, whether initializeProject returned true or false; when it
\* returned, the run ends by asking for the command to be run again.  So a
\* GET is only ever issued by an `add` run that started with albatroz.json
\* present.
C9_BootstrapDoesNotFetch ==
    /\ (cmd = "add" /\ cfgAtStart.kind = "absent" /\ DeclaresExpo(manAtStart))
        => /\ gets = <<>>
           /\ NothingWritten
           /\ pc \in {"initializeProject", "prompt", "install", "saveConfig", "exited"}
           /\ (Exited /\ initResult # "none")
                => /\ out[Len(out)] = Line("Please run init command first.")
                   /\ exitCode = 0
    /\ gets # <<>> => (cmd = "add" /\ cfgAtStart.kind # "absent")

C9_Witness ==
    /\ Exited /\ cmd = "add" /\ cfgAtStart.kind = "absent"
    /\ component = card
    /\ initResult = "true"
    /\ configFile.kind = "json"
    /\ installs # <<>>
    /\ Printed("Please run init command first.")

\* C10: every record written to albatroz.json has both dependency flags true
\* and the default baseUrl; so in a project that began without albatroz.json
\* the file, once it exists, holds exactly that record; and an `add` run that
\* starts with albatroz.json present never writes it.
C10_ConfigFlagsTrue ==
    /\ \A i \in 1..Len(cfgWrites) : cfgWrites[i] = InitialisedConfig
    /\ (noConfigAtFirst /\ configFile.kind # "absent")
        => configFile = JsonFile(InitialisedConfig)
    /\ (cmd = "add" /\ cfgAtStart.kind # "absent")
        => (cfgWrites = <<>> /\ configFile = cfgAtStart)

C10_Witness ==
    /\ Exited /\ noConfigAtFirst
    /\ configFile = JsonFile(InitialisedConfig)
    /\ installs # <<>>
    /\ manAtStart.dependencies = {} /\ manAtStart.devDependencies = {"expo"}

====
